---------------------------- MODULE Spec2Model ----------------------------
(***************************************************************************)
(* Order-status progression (OrderProgressScreen) and negotiation-chat     *)
(* synchronisation (NegotiationChat, NegotiationChatF) of the marketplace  *)
(* application, as state machines.  Every await of the JavaScript source   *)
(* is a suspension point: the request is issued in one step; the gateway's *)
(* answer and the continuation it resumes are the next step of that call.  *)
(***************************************************************************)
EXTENDS Integers, Sequences, FiniteSets, TLC

(***************************************************************************)
(* Bounds of the model.                                                    *)
(***************************************************************************)
NumOrders == 2
MaxCalls == 2
MaxStarted == 3
MaxResolves == 3
MaxSends == 2
MaxRestarts == 1
MaxMsgs == 2
MaxReruns == 1

MaxSessions == 2

MaxTicks == 3

MaxLookups == 2

MaxFetching == 2

OrderIds == 1..NumOrders

VARIABLES
    \* ---- OrderProgressScreen (src/unnamed/part_003) ----
    remoteStatus,   \* orders table: status column, by order id
    orders,         \* React state `orders`: the loaded list (sequence of statuses)
    loading,        \* React state `loading`
    mounted,        \* the screen is mounted (its effects are live)
    calls,          \* running invocations of the tick callback / handleUpdateStatus
    started,        \* number of invocations begun so far (bounds the exploration)
    notice,         \* the Alert.alert / console.error raised by the last step
    \* ---- conversation resolution (NegotiationChat.js, ChangePassword.js) ----
    uniqueKey,      \* the conversations table has a unique key on (crop, farmer, retailer)
    convRows,       \* number of conversations rows of the triple; their ids are 1..convRows
    view,           \* per chat view: conversationId, error state, the running resolution
    resolves,       \* number of resolution calls begun so far (bounds the exploration)
    \* ---- sending and the offline queue (NegotiationChat.js, ChangePassword.js) ----
    online,         \* the remote store is reachable
    inserted,       \* messages table: number of rows per composed message
    sends,          \* the onSend calls so far, in order; the message's id is its index
    offlineQueue,   \* React state `offlineQueue` of the farmer's view
    storedQueue,    \* AsyncStorage item "offlineQueueMessages"
    flushes,        \* running flush() calls of the flush effect
    restarts,       \* number of restarts of the application so far (bounds the exploration)
    alert,          \* the RNAlert.alert raised by the last step of a chat view
    \* ---- message list and realtime subscription of one open chat view ----
    openView,       \* the view that is open: "retailer" or "farmer" ("none": no view)
    msgRows,        \* messages table: number of rows of the conversation, ids 1..msgRows
    messages,       \* React state `messages`: the displayed list of message ids, top first
    shown,          \* the text shown for each entry of `messages` (same positions)
    selectedLang,   \* React state selectedLang / selectedLanguage of the open view
    effectRuns,     \* the runs of the subscription effect so far, in order
    events,         \* push events received on a channel, their handler not yet run
    refetches,      \* fetchMessages calls started by the farmer's push handler
    channelRef,     \* supabaseChannelRef.current of the farmer's view (0: null)
    convIdSet,      \* React state `conversationId` of the open view is set
    closed,         \* the view has been closed (unmounted)
    reruns,         \* number of dependency changes so far (bounds the exploration)
    \* ---- speech capture and text-to-speech of one chat view ----
    speechPath,     \* the view and its recognition path ("none": no view)
    speechMounted,  \* the view is mounted (mountedRef.current of the farmer's view)
    voiceReady,     \* React state `voiceReady`
    isRecording,    \* React state `isRecording`: the recording flag
    engine,         \* the recognition session of the engine: "idle" when none is active
    silenceTimer,   \* a timeout of the silence watchdog is pending
    recognitionRef, \* recognitionRef.current holds a recognition object
    superseded,     \* the session of a recognition object that a newer start replaced
    sessions,       \* number of starts so far (bounds the exploration)
    sessionTicks,   \* recognition ticks of the session so far (bounds the exploration)
    partialResultBuffer,  \* partialResultBufferRef.current
    lastFinalResult,      \* lastFinalResultRef.current
    inputText,      \* React state `inputText`: the composer text
    finals,         \* the finalized segments the engine delivered in the session
    interim,        \* the interim segment of the last tick
    mute,           \* React state `mute`
    muteRef,        \* muteRef.current
    muteQueued,     \* an update of `mute` is queued: "queued", "computed" or "none"
    utterance,      \* the text the text-to-speech engine is speaking (<<>>: none)
    lastSpeak,      \* what the last speakMessage call did
    \* ---- ConversationList (src/unnamed/part_005) ----
    screenMounted,  \* the conversation-list screen is mounted
    isLanguageReady,\* React state `isLanguageReady`
    storedUserId,   \* AsyncStorage holds a "userId" item
    lookups,        \* getUserId calls suspended on AsyncStorage.getItem
    lookupsStarted, \* number of getUserId calls so far (bounds the exploration)
    intervalRef,    \* intervalRef.current: the id of an interval (0: null)
    armed,          \* ids of the intervals that are set and not cleared
    fetching,       \* running fetchConversations calls: their isBackgroundRefresh flag
    listLoading,    \* React state `loading` of the screen
    listError       \* React state `error` of the screen is set

orderVars == <<remoteStatus, orders, loading, mounted, calls, started, notice>>

convVars == <<uniqueKey, convRows, view, resolves>>

chatVars == <<online, inserted, sends, offlineQueue, storedQueue, flushes, restarts, alert>>

listVars == <<openView, msgRows, messages, shown, selectedLang, effectRuns, events, refetches, channelRef,
              convIdSet, closed, reruns>>

sttVars == <<speechPath, speechMounted, voiceReady, isRecording, engine, silenceTimer,
             recognitionRef, superseded, sessions, sessionTicks>>

bufferVars == <<partialResultBuffer, lastFinalResult, inputText, finals, interim>>

ttsVars == <<mute, muteRef, muteQueued, utterance, lastSpeak>>

speechVars == <<sttVars, bufferVars, ttsVars>>

refreshVars == <<screenMounted, isLanguageReady, storedUserId, lookups, lookupsStarted,
                 intervalRef, armed, fetching, listLoading, listError>>

vars == <<orderVars, convVars, chatVars, listVars, speechVars, refreshVars>>

(***************************************************************************)
(* Order Status State Machine: src/unnamed/part_003                        *)
(***************************************************************************)
STATUS_SEQUENCE == <<"ordered", "packed", "shipped", "delivered">>

Statuses == {STATUS_SEQUENCE[k] : k \in DOMAIN STATUS_SEQUENCE}

\* Array.prototype.indexOf: 0-based position, -1 when absent.
IndexOf(seq, x) ==
    IF \E k \in DOMAIN seq : seq[k] = x
    THEN (CHOOSE k \in DOMAIN seq : seq[k] = x /\ \A j \in DOMAIN seq : seq[j] = x => k <= j) - 1
    ELSE -1

\* const newStatus = STATUS_SEQUENCE[currentIndex + 1]  (0-based indexing)
NextStatus(status) == STATUS_SEQUENCE[(IndexOf(STATUS_SEQUENCE, status) + 1) + 1]

\* setOrders(prev => prev.map(o => o.id === id ? {...o, status: newStatus} : o)),
\* a state update that React drops once the component is unmounted.
SetOrdersIncrement(prev, id, newStatus) ==
    [o \in DOMAIN prev |->
        IF o = id
        THEN (IF prev[o] = "delivered" THEN "delivered" ELSE NextStatus(prev[o]))
        ELSE prev[o]]

SetOrders(prev, id, newStatus) ==
    [o \in DOMAIN prev |-> IF o = id THEN newStatus ELSE prev[o]]

\* The part of the closed-over list a call still reads: handleUpdateStatus reads
\* one order, the tick's loop the orders after position i.
Unread(kind, snap, i) ==
    IF kind = "manual" THEN <<>>
    ELSE [k \in DOMAIN snap |-> IF k > i THEN snap[k] ELSE ""]

CallIds == DOMAIN calls

\* The tick's loop test (lines 156-160): the order is attempted when it is not
\* delivered and its index is below the last one.
Eligible(status) ==
    /\ status /= "delivered"
    /\ IndexOf(STATUS_SEQUENCE, status) < Len(STATUS_SEQUENCE) - 1

\* The first position at or after `from` of the snapshot that the loop attempts,
\* 0 when the loop runs to its end.
NextEligible(snap, from) ==
    IF \E k \in from..Len(snap) : Eligible(snap[k])
    THEN CHOOSE k \in from..Len(snap) :
            Eligible(snap[k]) /\ \A j \in from..(k - 1) : ~Eligible(snap[j])
    ELSE 0

\* Bookkeeping of the race window, kept on the call records.  `race` becomes
\* "yes" on two calls of different kind that computed the same newStatus for the
\* same order while both were suspended on their update, and "broken" as soon as
\* a write of another status is issued to that order while the call runs.
RacesWith(others, id, ns, kind) ==
    \E d \in DOMAIN others :
        others[d].i = id /\ others[d].newStatus = ns /\ others[d].kind /= kind

CleanAt(others, id, ns) ==
    \A d \in DOMAIN others : others[d].i = id => others[d].newStatus = ns

IssueMarks(others, id, ns, kind) ==
    [d \in DOMAIN others |->
        IF others[d].i /= id THEN others[d]
        ELSE IF others[d].newStatus /= ns
        THEN [others[d] EXCEPT !.race = IF @ = "no" THEN "no" ELSE "broken"]
        ELSE IF others[d].kind /= kind /\ others[d].race = "no" /\ CleanAt(others, id, ns)
        THEN [others[d] EXCEPT !.race = "yes"]
        ELSE others[d]]

\* The record of a call that issued
\* supabase.from("orders").update({status: newStatus}).eq("id", id) and is
\* suspended on it.
Issued(others, kind, snap, id) ==
    LET ns == NextStatus(snap[id])
    IN [kind |-> kind, snap |-> Unread(kind, snap, id), i |-> id,
        read |-> snap[id], newStatus |-> ns,
        race |-> IF RacesWith(others, id, ns, kind)
                 THEN (IF CleanAt(others, id, ns) THEN "yes" ELSE "broken")
                 ELSE "no"]

\* The running calls without the c-th.
Without(c) == [k \in 1..(Len(calls) - 1) |-> IF k < c THEN calls[k] ELSE calls[k + 1]]

\* A new invocation suspends on its first update.
Start(kind, snap, id) ==
    /\ Len(calls) < MaxCalls
    /\ started < MaxStarted
    /\ started' = started + 1
    /\ calls' = Append(IssueMarks(calls, id, NextStatus(snap[id]), kind),
                       Issued(calls, kind, snap, id))

\* fetchData (lines 98-149): the orders of the retailer are loaded; a failed
\* fetch leaves the list empty.
FetchData ==
    /\ mounted /\ loading
    /\ \/ orders' = remoteStatus
       \/ orders' = orders
    /\ loading' = FALSE
    /\ notice' = "none"
    /\ UNCHANGED <<remoteStatus, mounted, calls, started>>
    /\ UNCHANGED <<convVars, chatVars, listVars, speechVars, refreshVars>>

\* The interval fires (lines 154-180): the callback iterates the `orders` of the
\* render that armed it, up to its first await.
TickFire ==
    /\ mounted /\ ~loading
    /\ LET k == NextEligible(orders, 1)
       IN /\ k /= 0
          /\ Start("tick", orders, k)
    /\ notice' = "none"
    /\ UNCHANGED <<remoteStatus, orders, loading, mounted>>
    /\ UNCHANGED <<convVars, chatVars, listVars, speechVars, refreshVars>>

\* handleUpdateStatus(orderId) (lines 213-241), up to its first await.
ManualAdvance(id) ==
    /\ mounted /\ ~loading
    /\ id \in DOMAIN orders
    /\ IF IndexOf(STATUS_SEQUENCE, orders[id]) >= Len(STATUS_SEQUENCE) - 1
       THEN /\ notice' = "info:orderAlreadyDelivered"
            /\ UNCHANGED <<calls, started>>
       ELSE /\ Start("manual", orders, id)
            /\ notice' = "none"
    /\ UNCHANGED <<remoteStatus, orders, loading, mounted>>
    /\ UNCHANGED <<convVars, chatVars, listVars, speechVars, refreshVars>>

\* The awaited update settles and the continuation runs (lines 164-174, 227-236):
\* the gateway applied the update ("ok"), returned an {error} result ("error"),
\* or the request rejected ("rejected").  The result object is not inspected:
\* only a rejected promise reaches the catch block.
Settle(c, res) ==
    /\ c \in CallIds
    /\ remoteStatus' = IF res = "ok"
                       THEN [remoteStatus EXCEPT ![calls[c].i] = calls[c].newStatus]
                       ELSE remoteStatus
    /\ IF res = "rejected"
       THEN /\ calls' = Without(c)
            /\ notice' = IF calls[c].kind = "manual"
                         THEN "error:failedToUpdateStatus"
                         ELSE "log:Status update failed"
            /\ UNCHANGED orders
       ELSE /\ orders' = IF mounted
                         THEN SetOrders(orders, calls[c].i, calls[c].newStatus)
                         ELSE orders
            /\ IF calls[c].kind = "manual"
               THEN /\ calls' = Without(c)
                    /\ notice' = "success:orderUpdatedTo"
               ELSE /\ LET k == NextEligible(calls[c].snap, calls[c].i + 1)
                           others == Without(c)
                       IN IF k = 0
                          THEN calls' = others
                          ELSE calls' =
                                 Append(IssueMarks(others, k, NextStatus(calls[c].snap[k]), "tick"),
                                        Issued(others, "tick", calls[c].snap, k))
                    /\ notice' = "none"
    /\ UNCHANGED <<loading, mounted, started>>
    /\ UNCHANGED <<convVars, chatVars, listVars, speechVars, refreshVars>>

UpdateApplied(c) == Settle(c, "ok")

UpdateErrorResult(c) == Settle(c, "error")

UpdateRejected(c) == Settle(c, "rejected")

\* The screen is closed: the cleanups of both effects run (lines 145-148, 182-184).
Unmount ==
    /\ mounted
    /\ mounted' = FALSE
    /\ notice' = "none"
    /\ UNCHANGED <<remoteStatus, orders, loading, calls, started>>
    /\ UNCHANGED <<convVars, chatVars, listVars, speechVars, refreshVars>>

(***************************************************************************)
(* Conversation resolution: initializeConversation                         *)
(* (src/app/drawer/NegotiationChat.js, the retailer's view) and            *)
(* getOrCreateConversation (src/app/drawer/ChangePassword.js, the farmer's *)
(* view), both for one (crop, farmer, retailer) triple                     *)
(***************************************************************************)
Views == {"retailer", "farmer"}

\* null
NoId == 0

\* useState: conversationId null (the farmer's view may get it from the route),
\* loading true, no error; no resolution call has run.
IdleView ==
    [conversationId |-> NoId, error |-> FALSE, loading |-> TRUE, pc |-> "idle",
     returned |-> NoId, duplicate |-> FALSE, transport |-> FALSE]

\* .eq(crop).eq(farmer).eq(retailer).single() / .maybeSingle(): `data` is the
\* row when exactly one row matches, null otherwise (no row, or several rows,
\* which is an error result).
SelectSingle(rows) == IF rows = 1 THEN 1 ELSE NoId

\* A resolution call returns an id: setConversationId(id); the caller goes on to
\* fetchMessages(id) and suspends on the select (the farmer's fetchMessages sets
\* loading first).
Returned(v, id) ==
    [view EXCEPT ![v].pc = "fetch", ![v].returned = id, ![v].conversationId = id,
                 ![v].loading = IF v = "farmer" THEN TRUE ELSE @]

\* A resolution call gives up: the retailer's view throws into its catch block
\* (setError), the farmer's view returns null.  The caller stops there
\* (`if (!convId) return`, fetchMessages(null) returns at once): loading is not
\* touched.
GaveUp(v, dup, transport) ==
    [view EXCEPT ![v].pc = "done", ![v].returned = NoId,
                 ![v].error = IF v = "retailer" THEN TRUE ELSE @,
                 ![v].duplicate = dup,
                 ![v].transport = @ \/ transport]

\* The view calls its resolution function (setupRealtime, the subscription
\* effect or the retry button).  The farmer's function returns the id it already
\* holds (line 904).
Resolve(v) ==
    /\ view[v].pc \in {"idle", "done"}
    /\ resolves < MaxResolves
    /\ resolves' = resolves + 1
    /\ IF v = "farmer" /\ view[v].conversationId /= NoId
       THEN view' = [view EXCEPT ![v].pc = "fetch", ![v].returned = view[v].conversationId,
                                 ![v].loading = TRUE,
                                 ![v].duplicate = FALSE, ![v].transport = FALSE]
       ELSE view' = [view EXCEPT ![v].pc = "lookup", ![v].returned = NoId,
                                 ![v].duplicate = FALSE, ![v].transport = FALSE]
    /\ UNCHANGED <<uniqueKey, convRows>>
    /\ UNCHANGED <<orderVars, chatVars, listVars, speechVars, refreshVars>>

\* The store answers the lookup.  With a row the call returns its id; without,
\* the call goes on to insert a row and suspends on the insert.
LookupAnswered(v) ==
    /\ view[v].pc = "lookup"
    /\ LET existing == SelectSingle(convRows)
       IN IF existing /= NoId
          THEN view' = Returned(v, existing)
          ELSE view' = [view EXCEPT ![v].pc = "insert"]
    /\ UNCHANGED <<uniqueKey, convRows, resolves>>
    /\ UNCHANGED <<orderVars, chatVars, listVars, speechVars, refreshVars>>

\* The lookup comes back with a transport error result: `data` is null, the
\* error is not inspected (retailer) or only logged (farmer), the insert follows.
LookupErrorResult(v) ==
    /\ view[v].pc = "lookup"
    /\ view' = [view EXCEPT ![v].pc = "insert", ![v].transport = TRUE]
    /\ UNCHANGED <<uniqueKey, convRows, resolves>>
    /\ UNCHANGED <<orderVars, chatVars, listVars, speechVars, refreshVars>>

\* The lookup request rejects: the catch block.
LookupRejected(v) ==
    /\ view[v].pc = "lookup"
    /\ view' = GaveUp(v, FALSE, TRUE)
    /\ UNCHANGED <<uniqueKey, convRows, resolves>>
    /\ UNCHANGED <<orderVars, chatVars, listVars, speechVars, refreshVars>>

\* The store answers the insert: under a unique key a second row of the triple
\* is refused with a duplicate-key error, otherwise the row is created.
InsertAnswered(v) ==
    /\ view[v].pc = "insert"
    /\ IF uniqueKey /\ convRows >= 1
       THEN /\ view' = GaveUp(v, TRUE, FALSE)
            /\ UNCHANGED convRows
       ELSE /\ convRows' = convRows + 1
            /\ view' = Returned(v, convRows + 1)
    /\ UNCHANGED <<uniqueKey, resolves>>
    /\ UNCHANGED <<orderVars, chatVars, listVars, speechVars, refreshVars>>

\* The insert fails in transport (error result or rejection): createErr / catch.
InsertFailed(v) ==
    /\ view[v].pc = "insert"
    /\ view' = GaveUp(v, FALSE, TRUE)
    /\ UNCHANGED <<uniqueKey, convRows, resolves>>
    /\ UNCHANGED <<orderVars, chatVars, listVars, speechVars, refreshVars>>

\* fetchMessages gets its rows: setMessages, and loading ends (finally).
MessagesFetched(v) ==
    /\ view[v].pc = "fetch"
    /\ view' = [view EXCEPT ![v].pc = "done", ![v].loading = FALSE]
    /\ UNCHANGED <<uniqueKey, convRows, resolves>>
    /\ UNCHANGED <<orderVars, chatVars, listVars, speechVars, refreshVars>>

\* fetchMessages fails: the retailer's view sets its error, and loading ends.
MessagesFetchFailed(v) ==
    /\ view[v].pc = "fetch"
    /\ view' = [view EXCEPT ![v].pc = "done", ![v].loading = FALSE,
                            ![v].error = IF v = "retailer" THEN TRUE ELSE @]
    /\ UNCHANGED <<uniqueKey, convRows, resolves>>
    /\ UNCHANGED <<orderVars, chatVars, listVars, speechVars, refreshVars>>

\* The retry button of the retailer's error screen (lines 450-469), which is
\* rendered only when loading is false: setError(null), setLoading(true), then
\* initializeConversation().
RetryPressed ==
    /\ view["retailer"].error /\ ~view["retailer"].loading
    /\ view["retailer"].pc \in {"idle", "done"}
    /\ resolves < MaxResolves
    /\ resolves' = resolves + 1
    /\ view' = [view EXCEPT !["retailer"].error = FALSE, !["retailer"].pc = "lookup",
                            !["retailer"].loading = TRUE,
                            !["retailer"].returned = NoId,
                            !["retailer"].duplicate = FALSE,
                            !["retailer"].transport = FALSE]
    /\ UNCHANGED <<uniqueKey, convRows>>
    /\ UNCHANGED <<orderVars, chatVars, listVars, speechVars, refreshVars>>

(***************************************************************************)
(* Sending, the offline queue and its flush: onSend of the retailer's view *)
(* (src/app/drawer/NegotiationChat.js) and onSend, the flush effect and    *)
(* the load-on-mount effect of the farmer's view                           *)
(* (src/app/drawer/ChangePassword.js)                                      *)
(***************************************************************************)
OFFLINE_QUEUE_MAX == 200

MsgIds == 1..MaxSends

\* selectedLang of the retailer's view: English or another language (the
\* farmer's onSend does not read it).
Langs == {"en", "kn"}

\* What a request to the gateway ends with: data, an {error} result, or a
\* rejected promise.
Results == {"ok", "error", "rejected"}

\* At most one flush run starts per enqueue and per mount.
FlushIds == 1..(MaxSends + MaxRestarts)

Range(seq) == {seq[k] : k \in DOMAIN seq}

\* queue.slice(-n): the last n entries, in their order.
SliceLast(queue, n) ==
    IF Len(queue) <= n THEN queue ELSE SubSeq(queue, Len(queue) - n + 1, Len(queue))

RemoveAt(seq, k) == [j \in 1..(Len(seq) - 1) |-> IF j < k THEN seq[j] ELSE seq[j + 1]]

\* The flush effect runs after a change of offlineQueue: flush() returns at
\* once on an empty queue, else it issues the insert of the first entry and
\* suspends, holding the queue of that render.
FlushEffect(runs, queue) ==
    IF queue = <<>> THEN runs ELSE Append(runs, [snap |-> queue, idx |-> 1])

\* The gateway answers while the store is reachable and fails (an {error}
\* result or a rejected call) while it is not.
Answers(res) == IF res = "ok" THEN online ELSE ~online

\* A plain text in a language; the stored content of a message is its English
\* (canonical) text.
Plain(lang) == [form |-> "text", lang |-> lang]

\* translateText(text, targetLang): no target language returns the text; a
\* gateway that answers (res.ok, a well-formed body) gives the translation and
\* the detected language; any failure is caught and the text is returned.
TranslateTextEmptyOnFailure(text, targetLang, gatewayOk) ==
    IF targetLang = "null"
    THEN [translatedText |-> text, detectedLanguage |-> "null"]
    ELSE IF gatewayOk
         THEN [translatedText |-> Plain(targetLang), detectedLanguage |-> text.lang]
         ELSE [translatedText |-> Plain("none"), detectedLanguage |-> "null"]

TranslateText(text, targetLang, gatewayOk) ==
    IF targetLang = "null"
    THEN [translatedText |-> text, detectedLanguage |-> "null"]
    ELSE IF gatewayOk
         THEN [translatedText |-> Plain(targetLang), detectedLanguage |-> text.lang]
         ELSE [translatedText |-> text, detectedLanguage |-> "null"]

\* The content onSend puts in its insert for a text composed in language
\* wrote.  Farmer: the translatedText of translateText(txt, "en").  Retailer:
\* the text as composed when the selected language is English, else the value
\* translateText returned, an object.
SentContent(side, lang, wrote, gatewayOk) ==
    IF side = "farmer"
    THEN TranslateText(Plain(wrote), "en", gatewayOk).translatedText
    ELSE IF lang /= "en"
         THEN TranslateText(Plain(wrote), "en", gatewayOk)
         ELSE Plain(wrote)

\* The user sends a message from a view whose conversation is resolved:
\* onSend translates the text, runs up to its insert and suspends.  The callback holds the
\* offlineQueue of the render it was created in.
StartSend(side, lang) ==
    /\ view[side].conversationId /= NoId
    /\ side = "farmer" => lang = "en"
    /\ Len(sends) < MaxSends
    /\ \E wrote \in Langs, gatewayOk \in BOOLEAN :
          sends' = Append(sends, [side |-> side, lang |-> lang, pc |-> "insert",
                                  res |-> "none",
                                  content |-> SentContent(side, lang, wrote, gatewayOk),
                                  snap |-> IF side = "farmer" THEN offlineQueue ELSE <<>>])
    /\ alert' = "none"
    /\ UNCHANGED <<online, inserted, offlineQueue, storedQueue, flushes, restarts>>
    /\ UNCHANGED <<orderVars, convVars, listVars, speechVars, refreshVars>>

\* The insert of the farmer's onSend is answered.  Success clears the composer;
\* an {error} result is thrown, and the catch block appends the payload to the
\* queue of the callback's render, stores it and raises the "Offline" alert.
FarmerSendSettle(m, res) ==
    /\ m \in DOMAIN sends
    /\ sends[m].side = "farmer" /\ sends[m].pc = "insert"
    /\ Answers(res)
    /\ IF res = "ok"
       THEN /\ inserted' = [inserted EXCEPT ![m] = @ + 1]
            /\ sends' = [sends EXCEPT ![m].pc = "cleared", ![m].res = res]
            /\ alert' = "none"
            /\ UNCHANGED <<offlineQueue, storedQueue, flushes>>
       ELSE LET queued == Append(sends[m].snap, m)
            IN /\ offlineQueue' = SliceLast(queued, OFFLINE_QUEUE_MAX)
               /\ storedQueue' = SliceLast(queued, OFFLINE_QUEUE_MAX)
               /\ flushes' = FlushEffect(flushes, SliceLast(queued, OFFLINE_QUEUE_MAX))
               /\ sends' = [sends EXCEPT ![m].pc = "kept", ![m].res = res]
               /\ alert' = "offline_queued"
               /\ UNCHANGED inserted
    /\ UNCHANGED <<online, restarts>>
    /\ UNCHANGED <<orderVars, convVars, listVars, speechVars, refreshVars>>

\* The insert of the retailer's onSend is answered.  Its result is not
\* inspected; only a rejected call reaches the catch block.  After an answer,
\* txt.substring throws when txt holds the object translateText returned
\* (selectedLang is not "en"); else the conversations update is issued.
RetailerSendSettle(m, res) ==
    /\ m \in DOMAIN sends
    /\ sends[m].side = "retailer" /\ sends[m].pc = "insert"
    /\ Answers(res)
    /\ inserted' = IF res = "ok" THEN [inserted EXCEPT ![m] = @ + 1] ELSE inserted
    /\ IF res = "rejected" \/ sends[m].lang /= "en"
       THEN /\ sends' = [sends EXCEPT ![m].pc = "kept", ![m].res = res]
            /\ alert' = "failed_to_send_message"
       ELSE /\ sends' = [sends EXCEPT ![m].pc = "update", ![m].res = res]
            /\ alert' = "none"
    /\ UNCHANGED <<online, offlineQueue, storedQueue, flushes, restarts>>
    /\ UNCHANGED <<orderVars, convVars, listVars, speechVars, refreshVars>>

\* The conversations update of the retailer's onSend is answered: the composer
\* is cleared unless the call was rejected.
RetailerUpdateSettle(m, res) ==
    /\ m \in DOMAIN sends
    /\ sends[m].pc = "update"
    /\ Answers(res)
    /\ IF res = "rejected"
       THEN /\ sends' = [sends EXCEPT ![m].pc = "kept"]
            /\ alert' = "failed_to_send_message"
       ELSE /\ sends' = [sends EXCEPT ![m].pc = "cleared"]
            /\ alert' = "none"
    /\ UNCHANGED <<online, inserted, offlineQueue, storedQueue, flushes, restarts>>
    /\ UNCHANGED <<orderVars, convVars, listVars, speechVars, refreshVars>>

\* The insert a flush run waits for is answered.  On success the run goes on to
\* the next entry of its queue; after the last one it clears the queue and
\* removes the stored item.  On failure the run ends with a warning.
FlushSettle(f, res) ==
    /\ f \in DOMAIN flushes
    /\ Answers(res)
    /\ LET run == flushes[f]
           msg == run.snap[run.idx]
       IN IF res = "ok"
          THEN /\ inserted' = [inserted EXCEPT ![msg] = @ + 1]
               /\ IF run.idx < Len(run.snap)
                  THEN /\ flushes' = [flushes EXCEPT ![f].idx = @ + 1]
                       /\ UNCHANGED <<offlineQueue, storedQueue>>
                  ELSE /\ offlineQueue' = <<>>
                       /\ storedQueue' = <<>>
                       /\ flushes' = FlushEffect(RemoveAt(flushes, f), <<>>)
          ELSE /\ flushes' = RemoveAt(flushes, f)
               /\ UNCHANGED <<inserted, offlineQueue, storedQueue>>
    /\ alert' = "none"
    /\ UNCHANGED <<online, sends, restarts>>
    /\ UNCHANGED <<orderVars, convVars, listVars, speechVars, refreshVars>>

\* The application is closed and opened again on the same conversation: work
\* in flight is gone and the state of the view is new; the load-on-mount
\* effect of the farmer's view makes a stored, non-empty queue the in-memory
\* queue, which runs the flush effect.
Restart ==
    /\ restarts < MaxRestarts
    /\ restarts' = restarts + 1
    /\ sends' = [m \in DOMAIN sends |->
                   IF sends[m].pc \in {"insert", "update"}
                   THEN [sends[m] EXCEPT !.pc = "killed"]
                   ELSE sends[m]]
    /\ offlineQueue' = storedQueue
    /\ flushes' = FlushEffect(<<>>, storedQueue)
    /\ alert' = "none"
    /\ UNCHANGED <<online, inserted, storedQueue>>
    /\ UNCHANGED <<orderVars, convVars, listVars, speechVars, refreshVars>>

\* Connectivity is lost / comes back.
GoOffline ==
    /\ online
    /\ online' = FALSE
    /\ alert' = "none"
    /\ UNCHANGED <<inserted, sends, offlineQueue, storedQueue, flushes, restarts>>
    /\ UNCHANGED <<orderVars, convVars, listVars, speechVars, refreshVars>>

GoOnline ==
    /\ ~online
    /\ online' = TRUE
    /\ alert' = "none"
    /\ UNCHANGED <<inserted, sends, offlineQueue, storedQueue, flushes, restarts>>
    /\ UNCHANGED <<orderVars, convVars, listVars, speechVars, refreshVars>>

(***************************************************************************)
(* Message list and realtime subscription of an open chat view: the        *)
(* subscription effect and fetchMessages of NegotiationChat.js (retailer)  *)
(* and of ChangePassword.js (farmer).  Every channel(...).on(...)          *)
(* .subscribe() makes one more live subscription.                          *)
(***************************************************************************)
RunIds == 1..(MaxReruns + 2)

RefetchIds == 1..MaxMsgs

\* select('*')...order('created_at', {ascending: false}) on n rows: the ids
\* from the newest to the oldest.
ListOf(n) == [k \in 1..n |-> n + 1 - k]

\* GiftedChat.append(prev, msg): the new entry on top.
GiftedAppend(prev, msg) == <<msg>> \o prev

\* A state update of a component that is unmounted is dropped.
SetMessages(list) == IF closed THEN messages ELSE list

SetShown(texts) == IF closed THEN shown ELSE texts

\* data.map(...) of fetchMessages on the n rows read: a row is translated when
\* the language of the callback is set and is not English; oks are the rows
\* for which the translation gateway answers.
Formatted(n, lang, oks) ==
    [k \in 1..n |->
        IF lang /= "null" /\ lang /= "en"
        THEN TranslateText(Plain("en"), lang, ListOf(n)[k] \in oks).translatedText
        ELSE Plain("en")]

\* A run of the subscription effect starts: the async setup awaits the
\* conversation resolution.  Its fetchMessages is the callback of the render,
\* which holds the selected language of that render.
NewRun(lang) == [pc |-> "resolve", torn |-> FALSE, data |-> 0, lang |-> lang]

DropEvents(evs, r) == {e \in evs : e.run /= r}

\* The cleanup function of the current (latest) run.  Retailer: removes the
\* channel when `subscription` has been assigned, else does nothing.  Farmer:
\* subscribed = false, and the channel in supabaseChannelRef is removed.
\* `torn` records that the cleanup of the run has run.
CleanedUp ==
    LET c == Len(effectRuns)
    IN IF openView = "retailer"
       THEN [rs |-> [effectRuns EXCEPT ![c].torn = TRUE,
                                       ![c].pc = IF @ = "live" THEN "removed" ELSE @],
             events |-> IF effectRuns[c].pc = "live" THEN DropEvents(events, c) ELSE events,
             ref |-> channelRef]
       ELSE [rs |-> [r \in DOMAIN effectRuns |->
                       [effectRuns[r] EXCEPT !.torn = (r = c) \/ @,
                                             !.pc = IF r = channelRef THEN "removed" ELSE @]],
             events |-> DropEvents(events, channelRef),
             ref |-> 0]

\* A dependency of the effect changes after mount (the selected language is
\* resolved to another value, so fetchMessages is a new callback): cleanup,
\* then a new run.
DepsChanged ==
    /\ openView /= "none" /\ ~closed
    /\ reruns < MaxReruns
    /\ reruns' = reruns + 1
    /\ \E lang \in Langs \ {selectedLang} :
          /\ selectedLang' = lang
          /\ effectRuns' = Append(CleanedUp.rs, NewRun(lang))
    /\ events' = CleanedUp.events
    /\ channelRef' = CleanedUp.ref
    /\ UNCHANGED <<openView, msgRows, messages, shown, refetches, convIdSet, closed>>
    /\ UNCHANGED <<orderVars, convVars, chatVars, speechVars, refreshVars>>

\* The conversation resolution of a run returns the id and the run issues the
\* select of fetchMessages.  setConversationId changes a dependency of the
\* farmer's effect (getOrCreateConversation depends on conversationId), so
\* the first resolution of the farmer's view re-runs the effect.
SetupResolved(r) ==
    /\ r \in DOMAIN effectRuns
    /\ effectRuns[r].pc = "resolve"
    /\ convIdSet' = IF closed THEN convIdSet ELSE TRUE
    /\ IF openView = "farmer" /\ ~convIdSet /\ ~closed
       THEN /\ effectRuns' = Append([CleanedUp.rs EXCEPT ![r].pc = "fetch"],
                                     NewRun(selectedLang))
            /\ events' = CleanedUp.events
            /\ channelRef' = CleanedUp.ref
       ELSE /\ effectRuns' = [effectRuns EXCEPT ![r].pc = "fetch"]
            /\ UNCHANGED <<events, channelRef>>
    /\ UNCHANGED <<openView, msgRows, messages, shown, selectedLang, refetches, closed,
                   reruns>>
    /\ UNCHANGED <<orderVars, convVars, chatVars, speechVars, refreshVars>>

\* The select of a run's fetchMessages is answered with the rows of the store.
FetchAnswered(r) ==
    /\ r \in DOMAIN effectRuns
    /\ effectRuns[r].pc = "fetch"
    /\ effectRuns' = [effectRuns EXCEPT ![r].pc = "format", ![r].data = msgRows]
    /\ UNCHANGED <<openView, msgRows, messages, shown, selectedLang, events, refetches,
                   channelRef, convIdSet, closed, reruns>>
    /\ UNCHANGED <<orderVars, convVars, chatVars, speechVars, refreshVars>>

\* The rows are formatted: setMessages(formatted) and, in the finally block,
\* setLoading(false); then the run subscribes.  The farmer's run first removes
\* the channel in supabaseChannelRef and stores its own channel there.
FetchFormatted(r, oks) ==
    /\ r \in DOMAIN effectRuns
    /\ effectRuns[r].pc = "format"
    /\ oks \subseteq 1..effectRuns[r].data
    /\ messages' = SetMessages(ListOf(effectRuns[r].data))
    /\ shown' = SetShown(Formatted(effectRuns[r].data, effectRuns[r].lang, oks))
    /\ view' = IF closed THEN view ELSE [view EXCEPT ![openView].loading = FALSE]
    /\ IF openView = "retailer"
       THEN /\ effectRuns' = [effectRuns EXCEPT ![r].pc = "live"]
            /\ UNCHANGED <<events, channelRef>>
       ELSE /\ effectRuns' = [q \in DOMAIN effectRuns |->
                                [effectRuns[q] EXCEPT
                                   !.pc = IF q = r THEN "live"
                                          ELSE IF q = channelRef THEN "removed" ELSE @]]
            /\ events' = DropEvents(events, channelRef)
            /\ channelRef' = r
    /\ UNCHANGED <<openView, msgRows, selectedLang, refetches, convIdSet, closed, reruns>>
    /\ UNCHANGED <<uniqueKey, convRows, resolves>>
    /\ UNCHANGED <<orderVars, chatVars, speechVars, refreshVars>>

\* A message row is inserted in the conversation (by either party): every
\* live channel receives the INSERT event.
InsertMessage ==
    /\ openView /= "none"
    /\ msgRows < MaxMsgs
    /\ msgRows' = msgRows + 1
    /\ events' = events \cup {[run |-> r, msg |-> msgRows + 1] :
                                r \in {q \in DOMAIN effectRuns : effectRuns[q].pc = "live"}}
    /\ UNCHANGED <<openView, messages, shown, selectedLang, effectRuns, refetches,
                   channelRef, convIdSet, closed, reruns>>
    /\ UNCHANGED <<orderVars, convVars, chatVars, speechVars, refreshVars>>

\* The handler of a push event runs.  Retailer: the new row is appended to the
\* list with its stored content as text.  Farmer: nothing when the run was torn down (subscribed is false),
\* else fetchMessages is called again.
Deliver(e) ==
    /\ e \in events
    /\ events' = events \ {e}
    /\ IF openView = "retailer"
       THEN /\ messages' = SetMessages(GiftedAppend(messages, e.msg))
            /\ shown' = SetShown(GiftedAppend(shown, Plain("en")))
            /\ UNCHANGED refetches
       ELSE /\ refetches' = IF effectRuns[e.run].torn
                            THEN refetches
                            ELSE Append(refetches, [pc |-> "fetch", data |-> 0,
                                                    lang |-> effectRuns[e.run].lang])
            /\ UNCHANGED <<messages, shown>>
    /\ UNCHANGED <<openView, msgRows, selectedLang, effectRuns, channelRef, convIdSet,
                   closed, reruns>>
    /\ UNCHANGED <<orderVars, convVars, chatVars, speechVars, refreshVars>>

\* The select of a push-triggered fetchMessages is answered.
RefetchAnswered(k) ==
    /\ k \in DOMAIN refetches
    /\ refetches[k].pc = "fetch"
    /\ refetches' = [refetches EXCEPT ![k].pc = "format", ![k].data = msgRows]
    /\ UNCHANGED <<openView, msgRows, messages, shown, selectedLang, effectRuns, events,
                   channelRef, convIdSet, closed, reruns>>
    /\ UNCHANGED <<orderVars, convVars, chatVars, speechVars, refreshVars>>

\* The rows of a push-triggered fetchMessages are formatted: setMessages and
\* setLoading(false).
RefetchFormatted(k, oks) ==
    /\ k \in DOMAIN refetches
    /\ refetches[k].pc = "format"
    /\ oks \subseteq 1..refetches[k].data
    /\ messages' = SetMessages(ListOf(refetches[k].data))
    /\ shown' = SetShown(Formatted(refetches[k].data, refetches[k].lang, oks))
    /\ view' = IF closed THEN view ELSE [view EXCEPT ![openView].loading = FALSE]
    /\ refetches' = RemoveAt(refetches, k)
    /\ UNCHANGED <<openView, msgRows, selectedLang, effectRuns, events, channelRef,
                   convIdSet, closed, reruns>>
    /\ UNCHANGED <<uniqueKey, convRows, resolves>>
    /\ UNCHANGED <<orderVars, chatVars, speechVars, refreshVars>>

\* The view is closed: the cleanup of the current run.
CloseView ==
    /\ openView /= "none" /\ ~closed
    /\ closed' = TRUE
    /\ effectRuns' = CleanedUp.rs
    /\ events' = CleanedUp.events
    /\ channelRef' = CleanedUp.ref
    /\ UNCHANGED <<openView, msgRows, messages, shown, selectedLang, refetches, convIdSet,
                   reruns>>
    /\ UNCHANGED <<orderVars, convVars, chatVars, speechVars, refreshVars>>

(***************************************************************************)
(* Speech capture and text-to-speech of a chat view: the speech handlers   *)
(* of src/app/drawer/NegotiationChat.js (web recognition) and of           *)
(* NegotiationChatF in src/app/drawer/ChangePassword.js (web recognition   *)
(* and the native Voice module).  A text is a sequence of tokens: words    *)
(* and the space " ".  The recognition engine is outside the repository:   *)
(* it delivers results while a session runs and after a stop, ends the     *)
(* session by itself or after a stop, and the native module may deliver    *)
(* its final results after its end event.  The silence watchdog is a       *)
(* pending timeout that may fire at any moment while it is armed.          *)
(***************************************************************************)
SpeechPaths == {"retailer_web", "farmer_web", "farmer_native"}

Words == {"hello", "world"}

\* The transcripts the engine delivers: nothing, or one word.
Transcripts == {<<>>} \cup {<<w>> : w \in Words}

RECURSIVE TrimStart(_)
TrimStart(s) == IF s /= <<>> /\ Head(s) = " " THEN TrimStart(Tail(s)) ELSE s

RECURSIVE TrimEnd(_)
TrimEnd(s) ==
    IF s /= <<>> /\ s[Len(s)] = " " THEN TrimEnd(SubSeq(s, 1, Len(s) - 1)) ELSE s

\* String.prototype.trim.
Trim(s) == TrimEnd(TrimStart(s))

IsWeb == speechPath \in {"retailer_web", "farmer_web"}

\* A state update of an unmounted component is dropped.
SetIsRecording(b) == IF speechMounted THEN b ELSE isRecording

SetInputText(text) == IF speechMounted THEN text ELSE inputText

SetVoiceReady(b) == IF speechMounted THEN b ELSE voiceReady

\* The handlers of the farmer's web recognition return when mountedRef is
\* false (onstart, onresult, onend); the retailer's handlers do not test it.
HandlerRuns == speechPath = "retailer_web" \/ speechMounted

\* partialResultBufferRef and lastFinalResultRef after a final transcript:
\* a non-empty transcript that differs from the last one is appended behind a
\* space and the buffer is trimmed.
BufferAfter(final) ==
    IF final /= <<>> /\ final /= lastFinalResult
    THEN [buffer |-> Trim(partialResultBuffer \o <<" ">> \o final), last |-> final]
    ELSE [buffer |-> partialResultBuffer, last |-> lastFinalResult]

\* The finalized segments of the session after a final transcript: a
\* non-empty segment is added unless it equals the one before it.
FinalsAfter(final) ==
    IF final /= <<>> /\ (finals = <<>> \/ finals[Len(finals)] /= final)
    THEN Append(finals, final)
    ELSE finals

\* stop() of the engine: a running session starts to stop.
Stopped(e) == IF e = "running" THEN "stopping" ELSE e

\* The microphone button while isRecording is false: startSpeechToText.  The
\* buffers are cleared (the farmer's view also clears the composer and the
\* watchdog); the engine is started, isRecording is set and the watchdog is
\* armed.  The start event of the engine, whose handler clears the buffers
\* again, is part of this step.  A start on a recognition object or a native
\* module that has not yet ended its session throws: the retailer's call
\* stops there, the farmer's catch block clears isRecording and the watchdog.
\* The farmer's web path starts a new recognition object each time: while the
\* session of the previous object has not ended, the browser either refuses
\* the start (it throws) or starts the new session, and the previous session
\* is superseded: its handlers are still attached.
StartSpeech ==
    /\ speechPath /= "none" /\ speechMounted
    /\ ~isRecording /\ voiceReady
    /\ sessions < MaxSessions
    /\ sessions' = sessions + 1
    /\ partialResultBuffer' = <<>>
    /\ lastFinalResult' = <<>>
    /\ finals' = <<>>
    /\ interim' = <<>>
    /\ sessionTicks' = 0
    /\ inputText' = IF speechPath = "retailer_web" THEN inputText ELSE <<>>
    /\ \E throws \in BOOLEAN :
          /\ engine = "idle" => ~throws
          /\ (engine /= "idle" /\ (speechPath /= "farmer_web" \/ superseded /= "idle"))
                => throws
          /\ IF ~throws
             THEN /\ engine' = "running"
                  /\ isRecording' = TRUE
                  /\ silenceTimer' = TRUE
                  /\ recognitionRef' = (IsWeb \/ recognitionRef)
                  /\ superseded' = IF engine = "idle" THEN superseded ELSE engine
             ELSE /\ silenceTimer' = IF speechPath = "retailer_web"
                                     THEN silenceTimer ELSE FALSE
                  /\ UNCHANGED <<engine, isRecording, recognitionRef, superseded>>
    /\ UNCHANGED <<speechPath, speechMounted, voiceReady, ttsVars>>
    /\ UNCHANGED <<orderVars, convVars, chatVars, listVars, refreshVars>>

\* stopSpeechToText: the watchdog is cleared, the engine is asked to stop (the
\* web views need a recognition object in recognitionRef) and isRecording is
\* cleared.
StoppedSpeech ==
    [timer |-> FALSE,
     engine |-> IF IsWeb /\ ~recognitionRef THEN engine ELSE Stopped(engine),
     recording |-> SetIsRecording(FALSE)]

\* The microphone button while isRecording is true.
ManualStop ==
    /\ speechPath /= "none" /\ speechMounted
    /\ isRecording
    /\ silenceTimer' = StoppedSpeech.timer
    /\ engine' = StoppedSpeech.engine
    /\ isRecording' = StoppedSpeech.recording
    /\ UNCHANGED <<speechPath, superseded, speechMounted, voiceReady, recognitionRef, sessions,
                   sessionTicks, bufferVars, ttsVars>>
    /\ UNCHANGED <<orderVars, convVars, chatVars, listVars, refreshVars>>

\* The timeout of resetSilenceTimeout fires after SILENCE_TIMEOUT_MS without a
\* recognition event: stopSpeechToText.
WatchdogFires ==
    /\ silenceTimer
    /\ silenceTimer' = StoppedSpeech.timer
    /\ engine' = StoppedSpeech.engine
    /\ isRecording' = StoppedSpeech.recording
    /\ UNCHANGED <<speechPath, superseded, speechMounted, voiceReady, recognitionRef, sessions,
                   sessionTicks, bufferVars, ttsVars>>
    /\ UNCHANGED <<orderVars, convVars, chatVars, listVars, refreshVars>>

\* onresult of a web recognition: a tick with the final and the interim
\* transcript of its results.  The composer shows the trimmed buffer followed
\* by a space and the interim transcript; the watchdog is armed again.
WebResult(finalText, interimText) ==
    /\ IsWeb
    /\ engine \in {"running", "stopping"}
    /\ sessionTicks < MaxTicks
    /\ sessionTicks' = sessionTicks + 1
    /\ finals' = FinalsAfter(finalText)
    /\ interim' = interimText
    /\ IF HandlerRuns
       THEN /\ partialResultBuffer' = BufferAfter(finalText).buffer
            /\ lastFinalResult' = BufferAfter(finalText).last
            /\ inputText' =
                  IF speechPath = "retailer_web" /\ ~recognitionRef
                  THEN inputText
                  ELSE SetInputText(
                          Trim(BufferAfter(finalText).buffer \o
                               (IF interimText /= <<>> THEN <<" ">> \o interimText ELSE <<>>)))
            /\ silenceTimer' = TRUE
       ELSE UNCHANGED <<partialResultBuffer, lastFinalResult, inputText, silenceTimer>>
    /\ UNCHANGED <<speechPath, superseded, speechMounted, voiceReady, isRecording, engine,
                   recognitionRef, sessions, ttsVars>>
    /\ UNCHANGED <<orderVars, convVars, chatVars, listVars, refreshVars>>

\* Voice.onSpeechResults: a tick with a final transcript.  A transcript that
\* differs from the last one is appended and shown.  Results that were due
\* after the end event close the delivery.
NativeResults(val) ==
    /\ speechPath = "farmer_native" /\ speechMounted
    /\ engine \in {"running", "stopping", "due"}
    /\ val /= <<>>
    /\ sessionTicks < MaxTicks
    /\ sessionTicks' = sessionTicks + 1
    /\ finals' = FinalsAfter(val)
    /\ interim' = <<>>
    /\ partialResultBuffer' = BufferAfter(val).buffer
    /\ lastFinalResult' = BufferAfter(val).last
    /\ inputText' = IF val /= lastFinalResult THEN BufferAfter(val).buffer ELSE inputText
    /\ silenceTimer' = TRUE
    /\ engine' = IF engine = "due" THEN "idle" ELSE engine
    /\ UNCHANGED <<speechPath, superseded, speechMounted, voiceReady, isRecording, recognitionRef,
                   sessions, ttsVars>>
    /\ UNCHANGED <<orderVars, convVars, chatVars, listVars, refreshVars>>

\* Voice.onSpeechPartialResults: a tick with an interim transcript, shown
\* behind the buffer and a space.
NativePartial(val) ==
    /\ speechPath = "farmer_native" /\ speechMounted
    /\ engine \in {"running", "stopping"}
    /\ val /= <<>>
    /\ sessionTicks < MaxTicks
    /\ sessionTicks' = sessionTicks + 1
    /\ interim' = val
    /\ inputText' = partialResultBuffer \o <<" ">> \o val
    /\ silenceTimer' = TRUE
    /\ UNCHANGED <<speechPath, superseded, speechMounted, voiceReady, isRecording, engine,
                   recognitionRef, sessions, finals, partialResultBuffer,
                   lastFinalResult, ttsVars>>
    /\ UNCHANGED <<orderVars, convVars, chatVars, listVars, refreshVars>>

\* The engine ends the session, by itself or after a stop or an error: onend
\* / Voice.onSpeechEnd clear isRecording and the watchdog.  The native module
\* may still owe its final results.
EngineEnd ==
    /\ speechPath /= "none"
    /\ engine \in {"running", "stopping", "ending"}
    /\ IsWeb \/ speechMounted
    /\ \E due \in BOOLEAN :
          /\ due => speechPath = "farmer_native" /\ engine /= "ending"
          /\ engine' = IF due THEN "due" ELSE "idle"
    /\ IF HandlerRuns
       THEN /\ isRecording' = SetIsRecording(FALSE)
            /\ silenceTimer' = FALSE
       ELSE UNCHANGED <<isRecording, silenceTimer>>
    /\ UNCHANGED <<speechPath, superseded, speechMounted, voiceReady, recognitionRef, sessions,
                   sessionTicks, bufferVars, ttsVars>>
    /\ UNCHANGED <<orderVars, convVars, chatVars, listVars, refreshVars>>

\* The engine reports an error: onerror / Voice.onSpeechError clear
\* isRecording and the watchdog; the retailer's view and the native path also
\* clear voiceReady.  A web recognition fires its end event afterwards.
EngineError ==
    /\ speechPath /= "none"
    /\ engine \in {"running", "stopping"}
    /\ IsWeb \/ speechMounted
    /\ engine' = IF IsWeb THEN "ending" ELSE "idle"
    /\ isRecording' = SetIsRecording(FALSE)
    /\ voiceReady' = IF speechPath = "farmer_web" THEN voiceReady ELSE SetVoiceReady(FALSE)
    /\ silenceTimer' = FALSE
    /\ UNCHANGED <<speechPath, superseded, speechMounted, recognitionRef, sessions, sessionTicks,
                   bufferVars, ttsVars>>
    /\ UNCHANGED <<orderVars, convVars, chatVars, listVars, refreshVars>>

\* The superseded session of the farmer's web path ends: the onend handler
\* of its recognition object clears isRecording and the watchdog (when
\* mountedRef is set).
SupersededEnd ==
    /\ speechPath = "farmer_web"
    /\ superseded /= "idle"
    /\ superseded' = "idle"
    /\ IF HandlerRuns
       THEN /\ isRecording' = SetIsRecording(FALSE)
            /\ silenceTimer' = FALSE
       ELSE UNCHANGED <<isRecording, silenceTimer>>
    /\ UNCHANGED <<speechPath, speechMounted, voiceReady, engine, recognitionRef, sessions,
                   sessionTicks, bufferVars, ttsVars>>
    /\ UNCHANGED <<orderVars, convVars, chatVars, listVars, refreshVars>>

\* The superseded session reports an error: its onerror handler clears
\* isRecording and the watchdog; its end event follows.
SupersededError ==
    /\ speechPath = "farmer_web"
    /\ superseded \in {"running", "stopping"}
    /\ superseded' = "ending"
    /\ isRecording' = SetIsRecording(FALSE)
    /\ silenceTimer' = FALSE
    /\ UNCHANGED <<speechPath, speechMounted, voiceReady, engine, recognitionRef, sessions,
                   sessionTicks, bufferVars, ttsVars>>
    /\ UNCHANGED <<orderVars, convVars, chatVars, listVars, refreshVars>>

\* The view is unmounted: the cleanup of the speech effect stops the web
\* recognition and forgets it, or destroys the native module and removes its
\* listeners, and clears the watchdog; the cleanup of the text-to-speech
\* effect calls Speech.stop().
SpeechUnmount ==
    /\ speechPath /= "none" /\ speechMounted
    /\ speechMounted' = FALSE
    /\ engine' = IF IsWeb
                 THEN (IF recognitionRef THEN Stopped(engine) ELSE engine)
                 ELSE "idle"
    /\ recognitionRef' = FALSE
    /\ silenceTimer' = FALSE
    /\ utterance' = <<>>
    /\ UNCHANGED <<speechPath, superseded, voiceReady, isRecording, sessions, sessionTicks,
                   bufferVars, mute, muteRef, muteQueued, lastSpeak>>
    /\ UNCHANGED <<orderVars, convVars, chatVars, listVars, refreshVars>>

\* The function toggleMute passes to setMute: it writes muteRef and calls
\* Speech.stop() (the farmer's view only when the new value is true).
MuteUpdater(prev) ==
    [mute |-> ~prev,
     muteRef |-> ~prev,
     utterance |-> IF speechPath = "farmer_native" \/ speechPath = "farmer_web"
                   THEN (IF ~prev THEN <<>> ELSE utterance)
                   ELSE <<>>]

\* The mute button: toggleMute queues the update.  React computes an update
\* eagerly, inside setMute, when the component has no other update pending,
\* and otherwise when it renders.
ToggleMute ==
    /\ speechPath /= "none" /\ speechMounted
    /\ muteQueued = "none"
    /\ \E eager \in BOOLEAN :
          IF eager
          THEN /\ muteQueued' = "computed"
               /\ muteRef' = MuteUpdater(mute).muteRef
               /\ utterance' = MuteUpdater(mute).utterance
          ELSE /\ muteQueued' = "queued"
               /\ UNCHANGED <<muteRef, utterance>>
    /\ UNCHANGED <<mute, lastSpeak>>
    /\ UNCHANGED <<sttVars, bufferVars>>
    /\ UNCHANGED <<orderVars, convVars, chatVars, listVars, refreshVars>>

\* The render React flushes at the end of the press event: a queued update
\* function runs, the new mute state is committed and the effect on [mute]
\* copies it to muteRef.
MuteRendered ==
    /\ muteQueued /= "none"
    /\ muteQueued' = "none"
    /\ mute' = MuteUpdater(mute).mute
    /\ muteRef' = MuteUpdater(mute).mute
    /\ utterance' = IF muteQueued = "queued" THEN MuteUpdater(mute).utterance ELSE utterance
    /\ UNCHANGED lastSpeak
    /\ UNCHANGED <<sttVars, bufferVars>>
    /\ UNCHANGED <<orderVars, convVars, chatVars, listVars, refreshVars>>

\* The guard of speakMessage: no text, or muteRef.current.
SpeakReturnsOnNoText(text) == text = <<>>

SpeakReturns(text) == text = <<>> \/ muteRef

\* A message bubble is pressed: speakMessage(text).  A press is handled after
\* the updates of the press before it have been rendered.
SpeakMessage(text) ==
    /\ speechPath /= "none" /\ speechMounted
    /\ muteQueued = "none"
    /\ IF SpeakReturns(text)
       THEN /\ lastSpeak' = IF text = <<>> THEN "no_text" ELSE "muted"
            /\ UNCHANGED utterance
       ELSE /\ lastSpeak' = "spoken"
            /\ utterance' = text
    /\ UNCHANGED <<mute, muteRef, muteQueued>>
    /\ UNCHANGED <<sttVars, bufferVars>>
    /\ UNCHANGED <<orderVars, convVars, chatVars, listVars, refreshVars>>

\* The text-to-speech engine finishes the utterance.
UtteranceEnds ==
    /\ utterance /= <<>>
    /\ utterance' = <<>>
    /\ UNCHANGED <<mute, muteRef, muteQueued, lastSpeak>>
    /\ UNCHANGED <<sttVars, bufferVars>>
    /\ UNCHANGED <<orderVars, convVars, chatVars, listVars, refreshVars>>

(***************************************************************************)
(* The conversation list of the farmer (ConversationList,                  *)
(* src/unnamed/part_005): the effect that reads the user id and sets the   *)
(* 30-second refresh interval, and fetchConversations.  An interval has an *)
(* id; an interval that is set and not cleared fires again and again.      *)
(***************************************************************************)
LookupIds == 1..MaxLookups

\* A state update of a component that is unmounted is dropped.
SetListLoading(b) == IF screenMounted THEN b ELSE listLoading

SetListError(b) == IF screenMounted THEN b ELSE listError

\* The cleanup function of the effect: the interval in intervalRef, if any, is
\* cleared; intervalRef.current keeps its value.
ClearedByCleanup == IF intervalRef /= 0 THEN armed \ {intervalRef} ELSE armed

\* initializeLanguage ends: setIsLanguageReady(true), and the effect on
\* [isLanguageReady, t] runs: getUserId suspends on AsyncStorage.getItem.
LanguageReady ==
    /\ screenMounted /\ ~isLanguageReady
    /\ lookupsStarted < MaxLookups
    /\ isLanguageReady' = TRUE
    /\ lookups' = lookups + 1
    /\ lookupsStarted' = lookupsStarted + 1
    /\ UNCHANGED <<screenMounted, storedUserId, intervalRef, armed, fetching, listLoading,
                   listError>>
    /\ UNCHANGED <<orderVars, convVars, chatVars, listVars, speechVars>>

\* The language changes while the screen is mounted: `t` is a new function,
\* so the effect is cleaned up and runs again.
LanguageChanged ==
    /\ screenMounted /\ isLanguageReady
    /\ lookupsStarted < MaxLookups
    /\ armed' = ClearedByCleanup
    /\ lookups' = lookups + 1
    /\ lookupsStarted' = lookupsStarted + 1
    /\ UNCHANGED <<screenMounted, isLanguageReady, storedUserId, intervalRef, fetching,
                   listLoading, listError>>
    /\ UNCHANGED <<orderVars, convVars, chatVars, listVars, speechVars>>

\* AsyncStorage.getItem("userId") answers a getUserId call.  With an id:
\* setUserId, fetchConversations(id) starts (setLoading(true), setError("")),
\* and a new interval is set and stored in intervalRef.  Without: nothing.
UserIdRead ==
    /\ lookups > 0
    /\ lookups' = lookups - 1
    /\ IF storedUserId
       THEN /\ Len(fetching) < MaxFetching
            /\ fetching' = Append(fetching, FALSE)
            /\ listLoading' = SetListLoading(TRUE)
            /\ listError' = SetListError(FALSE)
            /\ LET id == lookupsStarted - lookups + 1
               IN /\ intervalRef' = id
                  /\ armed' = armed \cup {id}
       ELSE UNCHANGED <<fetching, listLoading, listError, intervalRef, armed>>
    /\ UNCHANGED <<screenMounted, isLanguageReady, storedUserId, lookupsStarted>>
    /\ UNCHANGED <<orderVars, convVars, chatVars, listVars, speechVars>>

\* AsyncStorage.getItem rejects: the catch block of getUserId.
UserIdReadFails ==
    /\ lookups > 0
    /\ lookups' = lookups - 1
    /\ listError' = SetListError(TRUE)
    /\ listLoading' = SetListLoading(FALSE)
    /\ UNCHANGED <<screenMounted, isLanguageReady, storedUserId, lookupsStarted, intervalRef,
                   armed, fetching>>
    /\ UNCHANGED <<orderVars, convVars, chatVars, listVars, speechVars>>

\* An interval that is armed fires: fetchConversations(id, true) starts.
RefreshTick(tm) ==
    /\ tm \in armed
    /\ Len(fetching) < MaxFetching
    /\ fetching' = Append(fetching, TRUE)
    /\ UNCHANGED <<screenMounted, isLanguageReady, storedUserId, lookups, lookupsStarted,
                   intervalRef, armed, listLoading, listError>>
    /\ UNCHANGED <<orderVars, convVars, chatVars, listVars, speechVars>>

\* A fetchConversations call gets its rows: setConversations; a call that is
\* not a background refresh ends the loading state (finally).
FetchSettled(k) ==
    /\ k \in DOMAIN fetching
    /\ fetching' = RemoveAt(fetching, k)
    /\ listLoading' = IF fetching[k] THEN listLoading ELSE SetListLoading(FALSE)
    /\ UNCHANGED <<screenMounted, isLanguageReady, storedUserId, lookups, lookupsStarted,
                   intervalRef, armed, listError>>
    /\ UNCHANGED <<orderVars, convVars, chatVars, listVars, speechVars>>

\* A select of a fetchConversations call fails: the catch block sets the
\* error unless the call is a background refresh.
FetchFailed(k) ==
    /\ k \in DOMAIN fetching
    /\ fetching' = RemoveAt(fetching, k)
    /\ listError' = IF fetching[k] THEN listError ELSE SetListError(TRUE)
    /\ listLoading' = IF fetching[k] THEN listLoading ELSE SetListLoading(FALSE)
    /\ UNCHANGED <<screenMounted, isLanguageReady, storedUserId, lookups, lookupsStarted,
                   intervalRef, armed>>
    /\ UNCHANGED <<orderVars, convVars, chatVars, listVars, speechVars>>

\* The screen is unmounted: the cleanup function of the effect runs, when the
\* effect has got as far as returning one (isLanguageReady).
ScreenUnmount ==
    /\ screenMounted
    /\ screenMounted' = FALSE
    /\ armed' = IF isLanguageReady THEN ClearedByCleanup ELSE armed
    /\ UNCHANGED <<isLanguageReady, storedUserId, lookups, lookupsStarted, intervalRef,
                   fetching, listLoading, listError>>
    /\ UNCHANGED <<orderVars, convVars, chatVars, listVars, speechVars>>

(***************************************************************************)
(* Initial states and specifications                                       *)
(***************************************************************************)
\* No conversation-list screen is open.
RefreshQuiet ==
    /\ screenMounted = FALSE
    /\ isLanguageReady = FALSE
    /\ storedUserId = FALSE
    /\ lookups = 0
    /\ lookupsStarted = 0
    /\ intervalRef = 0
    /\ armed = {}
    /\ fetching = <<>>
    /\ listLoading = TRUE
    /\ listError = FALSE

\* No order screen is open.
OrdersQuiet ==
    /\ remoteStatus = [o \in OrderIds |-> "ordered"]
    /\ orders = <<>>
    /\ loading = TRUE
    /\ mounted = TRUE
    /\ calls = <<>>
    /\ started = 0
    /\ notice = "none"

\* No message list is shown.
SpeechQuiet ==
    /\ speechPath = "none"
    /\ speechMounted = FALSE
    /\ voiceReady = FALSE
    /\ isRecording = FALSE
    /\ engine = "idle"
    /\ silenceTimer = FALSE
    /\ recognitionRef = FALSE
    /\ superseded = "idle"
    /\ sessions = 0
    /\ sessionTicks = 0
    /\ partialResultBuffer = <<>>
    /\ lastFinalResult = <<>>
    /\ inputText = <<>>
    /\ finals = <<>>
    /\ interim = <<>>
    /\ mute = FALSE
    /\ muteRef = FALSE
    /\ muteQueued = "none"
    /\ utterance = <<>>
    /\ lastSpeak = "none"

ListQuiet ==
    /\ openView = "none"
    /\ msgRows = 0
    /\ messages = <<>>
    /\ shown = <<>>
    /\ selectedLang = "null"
    /\ effectRuns = <<>>
    /\ events = {}
    /\ refetches = <<>>
    /\ channelRef = 0
    /\ convIdSet = FALSE
    /\ closed = FALSE
    /\ reruns = 0

\* Nothing was sent and nothing is queued.
ChatQuiet ==
    /\ online = TRUE
    /\ inserted = [m \in MsgIds |-> 0]
    /\ sends = <<>>
    /\ offlineQueue = <<>>
    /\ storedQueue = <<>>
    /\ flushes = <<>>
    /\ restarts = 0
    /\ alert = "none"

\* No chat view is open.
ConvQuiet ==
    /\ uniqueKey = TRUE
    /\ convRows = 0
    /\ view = [v \in Views |-> IdleView]
    /\ resolves = 0

InitOrders ==
    /\ remoteStatus \in [OrderIds -> Statuses]
    /\ orders = <<>>
    /\ loading = TRUE
    /\ mounted = TRUE
    /\ calls = <<>>
    /\ started = 0
    /\ notice = "none"
    /\ ConvQuiet
    /\ ChatQuiet
    /\ ListQuiet
    /\ SpeechQuiet
    /\ RefreshQuiet

NextOrders ==
    \/ FetchData
    \/ TickFire
    \/ \E id \in OrderIds : ManualAdvance(id)
    \/ \E c \in 1..MaxCalls : UpdateApplied(c)
    \/ \E c \in 1..MaxCalls : UpdateErrorResult(c)
    \/ \E c \in 1..MaxCalls : UpdateRejected(c)
    \/ Unmount

SpecOrders == InitOrders /\ [][NextOrders]_vars

\* The screen opened on orders that were just placed: checkout creates every
\* order with status "ordered".
InitPlaced == OrdersQuiet /\ ConvQuiet /\ ChatQuiet /\ ListQuiet /\ SpeechQuiet /\ RefreshQuiet
    /\ RefreshQuiet

SpecPlaced == InitPlaced /\ [][NextOrders]_vars

\* The store holds an order whose status is outside the sequence: checkout
\* inserts orders without a status, and the payment history also knows the
\* status "completed".
InitUnknown ==
    /\ remoteStatus \in [OrderIds -> Statuses \cup {"completed"}]
    /\ \E o \in OrderIds : remoteStatus[o] \notin Statuses
    /\ orders = <<>>
    /\ loading = TRUE
    /\ mounted = TRUE
    /\ calls = <<>>
    /\ started = 0
    /\ notice = "none"
    /\ ConvQuiet
    /\ ChatQuiet
    /\ ListQuiet
    /\ SpeechQuiet
    /\ RefreshQuiet

SpecUnknown == InitUnknown /\ [][NextOrders]_vars

\* The screen stays open and every remote update is applied.
NextOpen ==
    \/ FetchData
    \/ TickFire
    \/ \E id \in OrderIds : ManualAdvance(id)
    \/ \E c \in 1..MaxCalls : UpdateApplied(c)

SpecOpen == InitOrders /\ [][NextOpen]_vars

\* Both parties open the chat of a triple; the schema of the conversations
\* table is not part of the repository, so a unique key may or may not exist.
InitConv ==
    /\ uniqueKey \in BOOLEAN
    /\ convRows \in 0..1
    /\ \E fromRoute \in {NoId} \cup 1..convRows :
          view = [v \in Views |->
                    IF v = "farmer"
                    THEN [IdleView EXCEPT !.conversationId = fromRoute]
                    ELSE IdleView]
    /\ resolves = 0
    /\ OrdersQuiet
    /\ ListQuiet
    /\ SpeechQuiet
    /\ RefreshQuiet
    /\ ChatQuiet

\* The store answers every request.
NextConvAnswered ==
    \/ \E v \in Views : Resolve(v)
    \/ \E v \in Views : LookupAnswered(v)
    \/ \E v \in Views : InsertAnswered(v)
    \/ \E v \in Views : MessagesFetched(v)

SpecConvAnswered == InitConv /\ [][NextConvAnswered]_vars

\* Requests may also fail in transport.
NextConv ==
    \/ NextConvAnswered
    \/ \E v \in Views : LookupErrorResult(v)
    \/ \E v \in Views : LookupRejected(v)
    \/ \E v \in Views : InsertFailed(v)
    \/ \E v \in Views : MessagesFetchFailed(v)
    \/ RetryPressed

SpecConv == InitConv /\ [][NextConv]_vars

\* Both chat views are open on the resolved conversation of the triple, and
\* nothing is stored locally.
InitChat ==
    /\ uniqueKey = TRUE
    /\ convRows = 1
    /\ view = [v \in Views |->
                 [IdleView EXCEPT !.conversationId = 1, !.returned = 1,
                                  !.loading = FALSE, !.pc = "done"]]
    /\ resolves = 0
    /\ online \in BOOLEAN
    /\ inserted = [m \in MsgIds |-> 0]
    /\ sends = <<>>
    /\ offlineQueue = <<>>
    /\ storedQueue = <<>>
    /\ flushes = <<>>
    /\ restarts = 0
    /\ alert = "none"
    /\ OrdersQuiet
    /\ ListQuiet
    /\ SpeechQuiet
    /\ RefreshQuiet

\* The steps the application takes by itself once they are due: the
\* continuations of its requests in flight.
AppStep ==
    \/ \E m \in MsgIds, res \in Results : FarmerSendSettle(m, res)
    \/ \E m \in MsgIds, res \in Results : RetailerSendSettle(m, res)
    \/ \E m \in MsgIds, res \in Results : RetailerUpdateSettle(m, res)
    \/ \E f \in FlushIds, res \in Results : FlushSettle(f, res)

NextChat ==
    \/ \E side \in Views, lang \in Langs : StartSend(side, lang)
    \/ \E m \in MsgIds, res \in Results : FarmerSendSettle(m, res)
    \/ \E m \in MsgIds, res \in Results : RetailerSendSettle(m, res)
    \/ \E m \in MsgIds, res \in Results : RetailerUpdateSettle(m, res)
    \/ \E f \in FlushIds, res \in Results : FlushSettle(f, res)
    \/ Restart
    \/ GoOffline
    \/ GoOnline

SpecChat == InitChat /\ [][NextChat]_vars

\* Every request in flight is answered and its continuation runs (the
\* JavaScript event loop runs each due continuation).  Nothing is assumed of
\* the user or of connectivity.
FairSpecChat == SpecChat /\ WF_vars(AppStep)

\* Entries queued by earlier sessions of the farmer's view; their ids follow
\* the ids of the messages composed in this one.
OldIds == (MaxSends + 1)..(MaxSends + OFFLINE_QUEUE_MAX)

\* The farmer's view was opened with a stored queue that is full or one short
\* of full (the sends of earlier sessions failed): the load-on-mount effect
\* has made it the in-memory queue and the flush effect has started a run.
\* The store is unreachable.
InitFull ==
    /\ uniqueKey = TRUE
    /\ convRows = 1
    /\ view = [v \in Views |->
                 [IdleView EXCEPT !.conversationId = 1, !.returned = 1,
                                  !.loading = FALSE, !.pc = "done"]]
    /\ resolves = 0
    /\ online = FALSE
    /\ inserted = [m \in MsgIds \cup OldIds |-> 0]
    /\ sends = <<>>
    /\ \E n \in {OFFLINE_QUEUE_MAX - 1, OFFLINE_QUEUE_MAX} :
          storedQueue = [k \in 1..n |-> MaxSends + k]
    /\ offlineQueue = storedQueue
    /\ flushes = FlushEffect(<<>>, storedQueue)
    /\ restarts = 0
    /\ alert = "none"
    /\ OrdersQuiet
    /\ ListQuiet
    /\ SpeechQuiet
    /\ RefreshQuiet

\* The farmer's view while the store stays unreachable.
NextFull ==
    \/ StartSend("farmer", "en")
    \/ \E m \in MsgIds, res \in Results : FarmerSendSettle(m, res)
    \/ \E f \in FlushIds, res \in Results : FlushSettle(f, res)
    \/ Restart

SpecFull == InitFull /\ [][NextFull]_vars

\* A chat view has just been opened on the existing conversation of the
\* triple: the first run of its subscription effect has started.  The
\* farmer's view may have the conversation id from the route.
InitList ==
    /\ uniqueKey = TRUE
    /\ convRows = 1
    /\ view = [v \in Views |-> IdleView]
    /\ resolves = 0
    /\ openView \in Views
    /\ msgRows \in 0..1
    /\ messages = <<>>
    /\ shown = <<>>
    /\ selectedLang = (IF openView = "retailer" THEN "en" ELSE "null")
    /\ effectRuns = <<NewRun(selectedLang)>>
    /\ events = {}
    /\ refetches = <<>>
    /\ channelRef = 0
    /\ convIdSet \in (IF openView = "farmer" THEN BOOLEAN ELSE {FALSE})
    /\ closed = FALSE
    /\ reruns = 0
    /\ OrdersQuiet
    /\ ChatQuiet
    /\ SpeechQuiet
    /\ RefreshQuiet

NextList ==
    \/ DepsChanged
    \/ \E r \in RunIds : SetupResolved(r)
    \/ \E r \in RunIds : FetchAnswered(r)
    \/ \E r \in RunIds, oks \in SUBSET (1..MaxMsgs) : FetchFormatted(r, oks)
    \/ InsertMessage
    \/ \E r \in RunIds, m \in 1..MaxMsgs : Deliver([run |-> r, msg |-> m])
    \/ \E k \in RefetchIds : RefetchAnswered(k)
    \/ \E k \in RefetchIds, oks \in SUBSET (1..MaxMsgs) : RefetchFormatted(k, oks)
    \/ CloseView

SpecList == InitList /\ [][NextList]_vars

\* The steps the application and the services take by themselves: a request
\* in flight is answered, a push event is delivered, a due continuation runs.
ListStep ==
    \/ \E r \in RunIds : SetupResolved(r)
    \/ \E r \in RunIds : FetchAnswered(r)
    \/ \E r \in RunIds, oks \in SUBSET (1..MaxMsgs) : FetchFormatted(r, oks)
    \/ \E r \in RunIds, m \in 1..MaxMsgs : Deliver([run |-> r, msg |-> m])
    \/ \E k \in RefetchIds : RefetchAnswered(k)
    \/ \E k \in RefetchIds, oks \in SUBSET (1..MaxMsgs) : RefetchFormatted(k, oks)

\* Every such step that is due is taken.  Nothing is assumed of the users:
\* messages need not be inserted, the language need not change, the view
\* need not be closed.
FairSpecList == SpecList /\ WF_vars(ListStep)

\* The same view just after its selected language has been resolved: the
\* cleanup of the first run of the effect has run and a second run, whose
\* fetchMessages holds the resolved language, has started.
InitLoad ==
    /\ uniqueKey = TRUE
    /\ convRows = 1
    /\ view = [v \in Views |-> IdleView]
    /\ resolves = 0
    /\ openView \in Views
    /\ msgRows \in 0..1
    /\ messages = <<>>
    /\ shown = <<>>
    /\ selectedLang \in Langs \ {IF openView = "retailer" THEN "en" ELSE "null"}
    /\ effectRuns = <<[NewRun(IF openView = "retailer" THEN "en" ELSE "null")
                          EXCEPT !.torn = TRUE],
                      NewRun(selectedLang)>>
    /\ events = {}
    /\ refetches = <<>>
    /\ channelRef = 0
    /\ convIdSet \in (IF openView = "farmer" THEN BOOLEAN ELSE {FALSE})
    /\ closed = FALSE
    /\ reruns = 1
    /\ OrdersQuiet
    /\ ChatQuiet
    /\ SpeechQuiet
    /\ RefreshQuiet

\* The loads of the message list while the view stays open.
NextLoad ==
    \/ \E r \in RunIds : SetupResolved(r)
    \/ \E r \in RunIds : FetchAnswered(r)
    \/ \E r \in RunIds, oks \in SUBSET (1..MaxMsgs) : FetchFormatted(r, oks)
    \/ InsertMessage
    \/ \E r \in RunIds, m \in 1..MaxMsgs : Deliver([run |-> r, msg |-> m])
    \/ \E k \in RefetchIds : RefetchAnswered(k)
    \/ \E k \in RefetchIds, oks \in SUBSET (1..MaxMsgs) : RefetchFormatted(k, oks)

SpecLoad == InitLoad /\ [][NextLoad]_vars

\* A chat view has been mounted and its speech effect has run: the engine is
\* available, the retailer's view holds its recognition object, nothing is
\* recorded or spoken.
InitSpeech ==
    /\ speechPath \in SpeechPaths
    /\ speechMounted = TRUE
    /\ voiceReady = TRUE
    /\ isRecording = FALSE
    /\ engine = "idle"
    /\ silenceTimer = FALSE
    /\ recognitionRef = (speechPath = "retailer_web")
    /\ superseded = "idle"
    /\ sessions = 0
    /\ sessionTicks = 0
    /\ partialResultBuffer = <<>>
    /\ lastFinalResult = <<>>
    /\ inputText = <<>>
    /\ finals = <<>>
    /\ interim = <<>>
    /\ mute = FALSE
    /\ muteRef = FALSE
    /\ muteQueued = "none"
    /\ utterance = <<>>
    /\ lastSpeak = "none"
    /\ OrdersQuiet
    /\ ConvQuiet
    /\ ChatQuiet
    /\ ListQuiet
    /\ RefreshQuiet

\* Speech capture.
NextSpeech ==
    \/ StartSpeech
    \/ SupersededEnd
    \/ SupersededError
    \/ ManualStop
    \/ WatchdogFires
    \/ \E finalText, interimText \in Transcripts : WebResult(finalText, interimText)
    \/ \E val \in Transcripts : NativeResults(val)
    \/ \E val \in Transcripts : NativePartial(val)
    \/ EngineEnd
    \/ EngineError
    \/ SpeechUnmount

SpecSpeech == InitSpeech /\ [][NextSpeech]_vars

\* Text-to-speech and the mute button.
NextTts ==
    \/ ToggleMute
    \/ MuteRendered
    \/ \E text \in Transcripts : SpeakMessage(text)
    \/ UtteranceEnds
    \/ SpeechUnmount

SpecTts == InitSpeech /\ [][NextTts]_vars

StageIndex(status) == IndexOf(STATUS_SEQUENCE, status)

(***************************************************************************)
(* Claims on the order status state machine                                *)
(***************************************************************************)

\* C1: for every order, the status held by the remote store never moves to an
\* earlier stage of the sequence than a status already written for it, whatever
\* the interleaving of tick callbacks (also on a stale list) and manual advances.
C1_RemoteNeverRegresses ==
    [][\A o \in OrderIds :
          StageIndex(remoteStatus'[o]) >= StageIndex(remoteStatus[o])]_vars

\* C2: every change of an order's persisted or in-memory status is a move from
\* stage i to stage i+1: no write and no observable transition skips a stage,
\* and none goes past delivered.
C2_ExactlyOneStage ==
    [][\A o \in OrderIds :
          /\ remoteStatus'[o] /= remoteStatus[o]
                => StageIndex(remoteStatus'[o]) = StageIndex(remoteStatus[o]) + 1
          /\ (o \in DOMAIN orders /\ o \in DOMAIN orders' /\ orders'[o] /= orders[o])
                => StageIndex(orders'[o]) = StageIndex(orders[o]) + 1]_vars

\* C3: a manual advance on an order whose status is delivered writes nothing,
\* leaves the in-memory list unchanged and raises the already-delivered notice,
\* however often it is repeated; and the periodic tick never writes an order
\* that is delivered (in the store and in the loaded list).
C3_DeliveredIsNeverWritten ==
    [][/\ \A id \in DOMAIN orders :
            (orders[id] = "delivered" /\ ManualAdvance(id))
                => /\ UNCHANGED <<remoteStatus, orders, calls>>
                   /\ notice' = "info:orderAlreadyDelivered"
       /\ \A c \in DOMAIN calls :
            (calls[c].kind = "tick" /\ UpdateApplied(c))
                => ~(/\ remoteStatus[calls[c].i] = "delivered"
                     /\ calls[c].i \in DOMAIN orders
                     /\ orders[calls[c].i] = "delivered")]_vars

\* C4: when the remote update fails (an error result, or a rejected call) the
\* in-memory list is left unchanged and the failure is reported, for the manual
\* and for the periodic trigger, so that the in-memory status of an order is not
\* ahead of the saved one.
C4_FailureLeavesMemoryUnchanged ==
    [][\A c \in DOMAIN calls :
          (UpdateErrorResult(c) \/ UpdateRejected(c))
              => /\ orders' = orders
                 /\ notice' \in {"error:failedToUpdateStatus", "log:Status update failed"}
                 /\ \A o \in DOMAIN orders' :
                        StageIndex(orders'[o]) <= StageIndex(remoteStatus'[o])]_vars

\* C5: when a manual advance and a tick callback both read an order at stage i
\* before the write of either was applied, and no write of another status is
\* issued to that order meanwhile, each of the two writes leaves the order at
\* stage i+1 in the remote store and in the in-memory list: the order ends one
\* stage later, not two.
C5_RaceAdvancesOneStage ==
    [][\A c \in DOMAIN calls :
          (calls[c].race = "yes" /\ mounted /\ UpdateApplied(c))
              => /\ StageIndex(remoteStatus'[calls[c].i]) = StageIndex(calls[c].read) + 1
                 /\ StageIndex(orders'[calls[c].i]) = StageIndex(calls[c].read) + 1]_vars

\* Both racing calls computed the same status; the write of one was applied and
\* shown, the other is still suspended on its own write of the same status.
C5_Witness ==
    \E c \in DOMAIN calls :
        /\ calls[c].race = "yes"
        /\ mounted
        /\ \A d \in DOMAIN calls : d /= c => calls[d].i /= calls[c].i
        /\ remoteStatus[calls[c].i] = calls[c].newStatus
        /\ orders[calls[c].i] = calls[c].newStatus
        /\ StageIndex(calls[c].newStatus) = StageIndex(calls[c].read) + 1

(***************************************************************************)
(* Claims on conversation resolution                                       *)
(***************************************************************************)

\* C6: at most one conversations row exists per triple, and two resolution calls
\* for the triple that the store answered return the same conversation id,
\* whether they run one after the other or overlap.
C6_OneConversationPerTriple ==
    /\ convRows <= 1
    /\ \A v, w \in Views :
          (/\ view[v].pc \in {"fetch", "done"} /\ ~view[v].transport
           /\ view[w].pc \in {"fetch", "done"} /\ ~view[w].transport)
              => view[v].returned = view[w].returned

\* C7: a resolution call whose insert was refused with a duplicate-key error
\* re-reads the store and returns the id of the existing conversation: it does
\* not return null and its view is not in the error state.
C7_DuplicateKeyIsTolerated ==
    \A v \in Views :
        (view[v].pc = "done" /\ view[v].duplicate)
            => /\ view[v].returned /= NoId
               /\ view[v].returned = SelectSingle(convRows)
               /\ ~view[v].error


(***************************************************************************)
(* Claims on sending and the offline queue                                 *)
(***************************************************************************)
Finished(m) == sends[m].pc \in {"insert", "update"} /\ sends'[m].pc \in {"cleared", "kept"}

\* C8: when the send of a message finishes, the message is inserted in the
\* remote store or is in the offline queue; when its remote insert failed (an
\* error result or a rejected call) the message is in the queue and the
\* "queued" notice is raised.  For the farmer's and for the retailer's view.
C8_SentOrQueued ==
    [][\A m \in DOMAIN sends :
          Finished(m) =>
             /\ inserted'[m] >= 1 \/ m \in Range(offlineQueue')
             /\ sends'[m].res /= "ok" =>
                    m \in Range(offlineQueue') /\ alert' = "offline_queued"]_vars

\* A message of the farmer's view whose send ended in the catch block: it was
\* placed in the offline queue.
WasQueued(m) == sends[m].side = "farmer" /\ sends[m].pc = "kept"

\* C9: a message that was placed in the offline queue is never inserted twice
\* in the remote store, whatever flush runs happen (failed in the middle of
\* the batch and retried, or overlapping).
C9_QueuedInsertedOnce ==
    \A m \in DOMAIN sends : WasQueued(m) => inserted[m] <= 1

\* C10: if the remote store is reachable from some point on, then from some
\* point on the offline queue is empty and every message that was queued is
\* in the remote store.
C10_QueueEventuallyFlushed ==
    (<>[]online) =>
        <>[](/\ offlineQueue = <<>>
             /\ \A m \in DOMAIN sends : WasQueued(m) => inserted[m] >= 1)


\* C11: an entry leaves the offline queue, in memory or in local storage,
\* only when its own remote insert has been confirmed (the size cap aside,
\* which evicts only from a full queue); so an entry enqueued while a flush
\* is running survives the completion of that flush.
C11_RemovedOnlyAfterOwnInsert ==
    [][\A m \in MsgIds :
          /\ (m \in Range(offlineQueue) /\ m \notin Range(offlineQueue')
                 /\ Len(offlineQueue) < OFFLINE_QUEUE_MAX) => inserted'[m] >= 1
          /\ (m \in Range(storedQueue) /\ m \notin Range(storedQueue')
                 /\ Len(storedQueue) < OFFLINE_QUEUE_MAX) => inserted'[m] >= 1]_vars


\* C12: the in-memory queue and the stored queue never hold more than
\* OFFLINE_QUEUE_MAX entries; an enqueue on a full queue drops the oldest
\* entry and appends the new one behind the others, in their order; after
\* every enqueue the stored queue equals the in-memory queue.
C12_QueueBounded ==
    /\ [](Len(offlineQueue) <= OFFLINE_QUEUE_MAX /\ Len(storedQueue) <= OFFLINE_QUEUE_MAX)
    /\ [][\A m \in MsgIds :
            (\E res \in {"error", "rejected"} : FarmerSendSettle(m, res)) =>
               /\ Len(offlineQueue) >= OFFLINE_QUEUE_MAX =>
                      offlineQueue' = Append(Tail(offlineQueue), m)
               /\ storedQueue' = offlineQueue']_vars


(***************************************************************************)
(* Claims on the message list and the realtime subscription                *)
(***************************************************************************)
\* C13: the displayed message list of an open view never holds two entries
\* with the same message id.
C13_NoDuplicateEntries ==
    \A i, j \in DOMAIN messages : i /= j => messages[i] /= messages[j]

\* C14: a run of the subscription effect whose cleanup has run has no live
\* channel (also when the cleanup ran before the run reached its subscribe
\* step), and the handler of a push event received on its channel neither
\* changes the message list nor starts a fetch.
C14_NoDeliveryAfterTeardown ==
    /\ [](\A r \in DOMAIN effectRuns : effectRuns[r].torn => effectRuns[r].pc /= "live")
    /\ [][\A e \in events :
            (effectRuns[e.run].torn /\ Deliver(e)) =>
               messages' = messages /\ refetches' = refetches]_vars

\* C15: a load (the fetch of the subscription effect or a push-triggered
\* fetch) made with a selected language other than English, in an open view,
\* shows one entry per stored row read; the entries whose translation failed
\* show the stored English text, the others the translation into the
\* selected language; the view leaves loading and has no error.
C15_LoadToleratesTranslationFailure ==
    [][\A oks \in SUBSET (1..MaxMsgs) :
          /\ \A r \in RunIds :
                (FetchFormatted(r, oks) /\ ~closed
                    /\ effectRuns[r].lang \notin {"null", "en"}) =>
                   /\ Len(messages') = effectRuns[r].data
                   /\ \A m \in 1..effectRuns[r].data :
                         Cardinality({k \in DOMAIN messages' : messages'[k] = m}) = 1
                   /\ DOMAIN shown' = DOMAIN messages'
                   /\ \A k \in DOMAIN messages' :
                         shown'[k] = IF messages'[k] \in oks
                                     THEN Plain(effectRuns[r].lang)
                                     ELSE Plain("en")
                   /\ ~view'[openView].error /\ ~view'[openView].loading
          /\ \A q \in RefetchIds :
                (RefetchFormatted(q, oks) /\ ~closed
                    /\ refetches[q].lang \notin {"null", "en"}) =>
                   /\ Len(messages') = refetches[q].data
                   /\ \A m \in 1..refetches[q].data :
                         Cardinality({k \in DOMAIN messages' : messages'[k] = m}) = 1
                   /\ DOMAIN shown' = DOMAIN messages'
                   /\ \A k \in DOMAIN messages' :
                         shown'[k] = IF messages'[k] \in oks
                                     THEN Plain(refetches[q].lang)
                                     ELSE Plain("en")
                   /\ ~view'[openView].error /\ ~view'[openView].loading]_vars

\* A load of two rows in the farmer's view with a non-English language has
\* shown one row translated and the other, whose translation failed, in its
\* stored text.
C15_Witness ==
    /\ openView = "farmer" /\ ~closed
    /\ selectedLang = "kn"
    /\ messages = ListOf(2)
    /\ \E i, j \in DOMAIN shown : shown[i] = Plain("en") /\ shown[j] = Plain("kn")
    /\ ~view["farmer"].loading

(***************************************************************************)
(* Claims on the content of messages                                       *)
(***************************************************************************)
\* C16: the content of every row a send or a queue flush has written to the
\* messages table is the plain English text of the message.
C16_StoredContentCanonical ==
    \A m \in DOMAIN sends : inserted[m] >= 1 => sends[m].content = Plain("en")

(***************************************************************************)
(* Claims on a failed conversation resolution                              *)
(***************************************************************************)
\* C17: once the resolution of a view has given up (its lookup or its create
\* step failed and the call has returned without an id), the view is no
\* longer loading and its error state, which carries the retry button, is
\* set.
C17_FailedResolutionShowsError ==
    \A v \in Views :
        (view[v].pc = "done" /\ view[v].returned = NoId) =>
            ~view[v].loading /\ view[v].error

(***************************************************************************)
(* Claims on speech capture and text-to-speech                             *)
(***************************************************************************)
RECURSIVE JoinSegments(_)
JoinSegments(segs) ==
    IF segs = <<>> THEN <<>>
    ELSE IF Len(segs) = 1 THEN segs[1]
    ELSE segs[1] \o <<" ">> \o JoinSegments(Tail(segs))

ExpectedText ==
    IF interim = <<>> THEN JoinSegments(finals)
    ELSE IF finals = <<>> THEN interim
    ELSE JoinSegments(finals) \o <<" ">> \o interim

\* C18: in a mounted view, after every recognition tick of a session, the
\* finalized buffer is the finalized segments of the session joined by single
\* spaces (a segment equal to the one before it counted once), and the
\* composer text is that buffer followed, when the tick had an interim
\* segment, by one space and the segment, without a leading or trailing
\* space.
C18_ComposerIsFinalsThenInterim ==
    (speechMounted /\ sessionTicks >= 1) =>
        /\ partialResultBuffer = JoinSegments(finals)
        /\ inputText = ExpectedText

\* C19: whenever no recognition session is active, no timeout of the silence
\* watchdog is pending and, in a mounted view, the recording flag is false.
C19_StoppedMeansQuiet ==
    engine = "idle" => ~silenceTimer /\ (speechMounted => ~isRecording)

C21_NoWriteAfterTeardown ==
    [][\A c \in DOMAIN calls :
          (~mounted /\ calls[c].kind = "tick"
              /\ (UpdateApplied(c) \/ UpdateErrorResult(c) \/ UpdateRejected(c))) =>
             /\ orders' = orders
             /\ Len(calls') < Len(calls)]_vars

\* C23: when the update of one order of a tick is rejected, the tick still
\* attempts the next order of its list that is not delivered.
C23_TickFailureContained ==
    [][\A c \in DOMAIN calls :
          (calls[c].kind = "tick" /\ UpdateRejected(c)
              /\ NextEligible(calls[c].snap, calls[c].i + 1) /= 0) =>
             \E d \in DOMAIN calls' :
                 /\ calls'[d].kind = "tick"
                 /\ calls'[d].i = NextEligible(calls[c].snap, calls[c].i + 1)]_vars

\* C29: the status of an order that is not one of ordered, packed, shipped,
\* delivered is changed neither in the store nor in the in-memory list.
C29_UnknownStatusNeverWritten ==
    [][\A o \in OrderIds :
          /\ remoteStatus[o] \notin Statuses => remoteStatus'[o] = remoteStatus[o]
          /\ (o \in DOMAIN orders /\ o \in DOMAIN orders' /\ orders[o] \notin Statuses)
                => orders'[o] = orders[o]]_vars

\* C30: while the screen stays open and every update is applied, an order that
\* is delivered, in the store or in the in-memory list, stays delivered.
C30_DeliveredStays ==
    [][\A o \in OrderIds :
          /\ remoteStatus[o] = "delivered" => remoteStatus'[o] = "delivered"
          /\ (o \in DOMAIN orders /\ o \in DOMAIN orders' /\ orders[o] = "delivered")
                => orders'[o] = "delivered"]_vars

(***************************************************************************)
(* Further claims on the displayed message list                            *)
(***************************************************************************)
\* C22: the displayed list is ordered newest first (a message id is the rank
\* of its creation timestamp): no entry is older than an entry below it,
\* after any fetches and push appends.
C22_NewestFirst ==
    \A i \in DOMAIN messages : \A j \in DOMAIN messages :
        i < j => messages[i] >= messages[j]

\* C24: while the view is open, a state update never removes a message that
\* is displayed; in particular the result of a fetch that read the store
\* earlier does not replace the result of one that read it later.
C24_DisplayedNeverRemoved ==
    [][(openView /= "none" /\ ~closed) =>
          Range(messages) \subseteq Range(messages')]_vars

(***************************************************************************)
(* Further claims on the conversation resolution                           *)
(***************************************************************************)
\* C26: a resolution call goes from its lookup on to the insert only when the
\* lookup was answered and found no row of the triple: not after a lookup
\* that came back with a transport error, and not after one that matched
\* several rows.
C26_InsertOnlyAfterEmptyLookup ==
    [][\A v \in Views :
          (view[v].pc = "lookup" /\ view'[v].pc = "insert") =>
              /\ convRows = 0
              /\ ~view'[v].transport]_vars

(***************************************************************************)
(* The conversation-list screen and its claim                              *)
(***************************************************************************)
\* The screen has been mounted: useState defaults, the language effect is
\* running, no interval is set.
InitRefresh ==
    /\ screenMounted = TRUE
    /\ isLanguageReady = FALSE
    /\ storedUserId \in BOOLEAN
    /\ lookups = 0
    /\ lookupsStarted = 0
    /\ intervalRef = 0
    /\ armed = {}
    /\ fetching = <<>>
    /\ listLoading = TRUE
    /\ listError = FALSE
    /\ OrdersQuiet
    /\ ConvQuiet
    /\ ChatQuiet
    /\ ListQuiet
    /\ SpeechQuiet

NextRefresh ==
    \/ LanguageReady
    \/ LanguageChanged
    \/ UserIdRead
    \/ UserIdReadFails
    \/ \E tm \in LookupIds : RefreshTick(tm)
    \/ \E k \in 1..MaxFetching : FetchSettled(k)
    \/ \E k \in 1..MaxFetching : FetchFailed(k)
    \/ ScreenUnmount

SpecRefresh == InitRefresh /\ [][NextRefresh]_vars

\* C25: once the conversation-list screen is unmounted no refresh interval is
\* armed, and no refresh starts.
C25_NoRefreshAfterTeardown ==
    /\ [](~screenMounted => armed = {})
    /\ [][~screenMounted => \A tm \in LookupIds : ~RefreshTick(tm)]_vars

(***************************************************************************)
(* Delivery of the messages inserted while a view is open                  *)
(***************************************************************************)
\* C27: a message that is not in the store when the view opens and is
\* inserted later is displayed in the view at some moment, unless the view
\* is closed.
C27_InsertedEventuallyDisplayed ==
    \A m \in 1..MaxMsgs :
        (msgRows < m) =>
            ([](msgRows < m) \/ <>(closed \/ m \in Range(messages)))

(***************************************************************************)
(* Recognition sessions that a newer start replaced                        *)
(***************************************************************************)
\* C28: while the view is mounted and a recognition session is running with
\* no stop requested for it, the recording flag is set; and the end or error
\* event of a superseded session changes neither the recording flag nor the
\* silence watchdog.
C28_SupersededEventsIgnored ==
    /\ []((speechMounted /\ engine = "running") => isRecording)
    /\ [][(SupersededEnd \/ SupersededError) =>
             (isRecording' = isRecording /\ silenceTimer' = silenceTimer)]_vars

=============================================================================
